---- MODULE Spec2Model ----
(***************************************************************************)
(* The Cookpad recipe extractor (cookpad_ingest): the spider's             *)
(* parse_recipe orchestrator with its JSON-LD and DOM extractors, the text *)
(* helpers and fingerprints, and the staging pipeline's upsert.            *)
(*                                                                         *)
(* A Python str is a sequence of characters, each character one token.     *)
(* A Python value is a record tagged by its type in field t.               *)
(***************************************************************************)
EXTENDS Integers, Sequences, FiniteSets, TLC

VARIABLES pc, response, item, store, arrivals, call, result

vars == <<pc, response, item, store, arrivals, call, result>>

crawlVars == <<pc, response, item, store, arrivals>>

fnVars == <<call, result>>

(***************************************************************************)
(* Characters.                                                             *)
(***************************************************************************)
\* U+0020, the ASCII space.
SP == " "

\* U+00A0, the non-breaking space ("\xa0").
NBSP == "nbsp"

\* "\t".
TAB == "tab"

\* "\n".
NL == "nl"

\* str.isspace() / the regex class \s.
IsSpace(c) == c \in {SP, NBSP, TAB, NL}

\* The regex class [ \t\r\f\v].
IsHorizontal(c) == c \in {SP, TAB}

\* str.lower() on one character: the capitals, "O^" (an accented one) too, fold.
LowerChar(c) ==
    CASE c = "A" -> "a"
      [] c = "B" -> "b"
      [] c = "O" -> "o"
      [] c = "P" -> "p"
      [] c = "O^" -> "o^"
      [] OTHER -> c

\* unidecode on one character: accents are dropped, U+00A0 becomes a space.
UnidecodeChar(c) ==
    CASE c = "o^" -> "o"
      [] c = "O^" -> "O"
      [] c = NBSP -> SP
      [] OTHER -> c

(***************************************************************************)
(* Python values.                                                          *)
(***************************************************************************)
None == [t |-> "NoneType"]

Str(s) == [t |-> "str", s |-> s]

Num(n) == [t |-> "int", n |-> n]

List(xs) == [t |-> "list", xs |-> xs]

\* A dict keeps its (key, value) pairs in insertion order.
Dict(items) == [t |-> "dict", items |-> items]

\* A raised exception, as the value of the call that raised it.
Exc(type, msg) == [t |-> "exc", type |-> type, msg |-> msg]

Raised(r) == "t" \in DOMAIN r /\ r.t = "exc"

IsStr(v) == v.t = "str"

IsList(v) == v.t = "list"

IsDict(v) == v.t = "dict"

\* Python truthiness: bool(v).
Truthy(v) ==
    CASE v.t = "NoneType" -> FALSE
      [] v.t = "str" -> v.s # <<>>
      [] v.t = "int" -> v.n # 0
      [] v.t = "list" -> v.xs # <<>>
      [] v.t = "dict" -> v.items # <<>>
      [] OTHER -> TRUE

\* op(v), with v evaluated once.
Bind(v, op(_)) == CHOOSE y \in {op(x) : x \in {v}} : TRUE

\* a or b
Or(a, b) == IF Truthy(a) THEN a ELSE b

\* d.get(k): the value of the last pair with key k, None without one.
Get(d, k) ==
    LET hits == {i \in 1..Len(d.items) : d.items[i][1] = k}
    IN  IF hits = {} THEN None
        ELSE d.items[CHOOSE i \in hits : \A j \in hits : j <= i][2]

\* str(v), as characters.
PyStr(v) ==
    CASE v.t = "str" -> v.s
      [] v.t = "int" -> <<ToString(v.n)>>
      [] v.t = "NoneType" -> <<"N", "o", "n", "e">>
      [] v.t = "list" -> <<"[", "...", "]">>
      [] OTHER -> <<"{", "...", "}">>

(***************************************************************************)
(* str methods and the regular expressions of the text helpers.            *)
(***************************************************************************)
RECURSIVE LStrip(_)
LStrip(s) == IF s # <<>> /\ IsSpace(Head(s)) THEN LStrip(Tail(s)) ELSE s

RECURSIVE RStrip(_)
RStrip(s) ==
    IF s # <<>> /\ IsSpace(s[Len(s)]) THEN RStrip(SubSeq(s, 1, Len(s) - 1)) ELSE s

\* s.strip()
strip(s) == RStrip(LStrip(s))

\* s.lower()
lower(s) == [i \in 1..Len(s) |-> LowerChar(s[i])]

\* unidecode(s)
unidecode(s) == [i \in 1..Len(s) |-> UnidecodeChar(s[i])]

\* s.replace("\xa0", " ")
ReplaceNbsp(s) == [i \in 1..Len(s) |-> IF s[i] = NBSP THEN SP ELSE s[i]]

RECURSIVE DropWhileHorizontal(_)
DropWhileHorizontal(s) ==
    IF s # <<>> /\ IsHorizontal(Head(s)) THEN DropWhileHorizontal(Tail(s)) ELSE s

\* re.sub(r"[ \t\r\f\v]+", " ", s)
RECURSIVE CollapseHorizontal(_)
CollapseHorizontal(s) ==
    IF s = <<>> THEN <<>>
    ELSE IF IsHorizontal(Head(s))
         THEN <<SP>> \o CollapseHorizontal(DropWhileHorizontal(s))
         ELSE <<Head(s)>> \o CollapseHorizontal(Tail(s))

RECURSIVE DropWhileNewline(_)
DropWhileNewline(s) ==
    IF s # <<>> /\ Head(s) = NL THEN DropWhileNewline(Tail(s)) ELSE s

\* re.sub(r"\n{2,}", "\n", s)
RECURSIVE CollapseNewlines(_)
CollapseNewlines(s) ==
    IF s = <<>> THEN <<>>
    ELSE IF Head(s) = NL
         THEN <<NL>> \o CollapseNewlines(DropWhileNewline(s))
         ELSE <<Head(s)>> \o CollapseNewlines(Tail(s))

RECURSIVE DropWhileSpace(_)
DropWhileSpace(s) ==
    IF s # <<>> /\ IsSpace(Head(s)) THEN DropWhileSpace(Tail(s)) ELSE s

\* re.sub(r"\s+", " ", s)
RECURSIVE CollapseSpace(_)
CollapseSpace(s) ==
    IF s = <<>> THEN <<>>
    ELSE IF IsSpace(Head(s))
         THEN <<SP>> \o CollapseSpace(DropWhileSpace(s))
         ELSE <<Head(s)>> \o CollapseSpace(Tail(s))

\* sep.join(parts), parts a sequence of character sequences.
RECURSIVE Join(_, _)
Join(parts, sep) ==
    IF parts = <<>> THEN <<>>
    ELSE IF Len(parts) = 1 THEN parts[1]
    ELSE parts[1] \o sep \o Join(Tail(parts), sep)

\* hashlib.sha256(payload).hexdigest(): a digest names its payload, and
\* distinct payloads have distinct digests.
Sha256Hex(payload) == [t |-> "sha256hex", of |-> payload]

(***************************************************************************)
(* CookpadVnSpider: the text helpers.                                      *)
(***************************************************************************)
_normalize_whitespace(s) ==
    strip(CollapseNewlines(CollapseHorizontal(ReplaceNbsp(s))))

\* The first loop of _clean_lines: the normalised entries that are not
\* None and not empty, in order.
RECURSIVE NormalizedEntries(_)
NormalizedEntries(lines) ==
    IF lines = <<>> THEN <<>>
    ELSE LET x == Head(lines)
             s == _normalize_whitespace(PyStr(x))
         IN  IF x = None \/ s = <<>>
             THEN NormalizedEntries(Tail(lines))
             ELSE <<Str(s)>> \o NormalizedEntries(Tail(lines))

\* The second loop of _clean_lines: an entry equal to its predecessor is
\* dropped.
RECURSIVE DedupConsecutive(_, _)
DedupConsecutive(out, prev) ==
    IF out = <<>> THEN <<>>
    ELSE (IF Head(out) # prev THEN <<Head(out)>> ELSE <<>>)
         \o DedupConsecutive(Tail(out), Head(out))

\* utils.clean_lines's second loop: an entry seen anywhere before is dropped.
RECURSIVE DedupAll(_, _)
DedupAll(out, seen) ==
    IF out = <<>> THEN <<>>
    ELSE (IF Head(out) \notin seen THEN <<Head(out)>> ELSE <<>>)
         \o DedupAll(Tail(out), seen \cup {Head(out)})

_clean_lines_dedup_all(lines) == DedupAll(NormalizedEntries(lines), {})

_clean_lines(lines) == DedupConsecutive(NormalizedEntries(lines), None)

\* The payload _fingerprint hashes.
_fingerprint_payload(name, ingredients, instructions) ==
    Join(<<lower(strip(name.s)),
           Join([i \in 1..Len(ingredients) |-> lower(strip(ingredients[i].s))], <<NL>>),
           Join([i \in 1..Len(instructions) |-> lower(strip(instructions[i].s))], <<NL>>)>>,
         <<NL>>)

\* name.strip() raises AttributeError when name is not a str.
_fingerprint(name, ingredients, instructions) ==
    IF ~IsStr(name)
    THEN Exc("AttributeError", "'" \o name.t \o "' object has no attribute 'strip'")
    ELSE Sha256Hex(_fingerprint_payload(name, ingredients, instructions))

(***************************************************************************)
(* utils.py                                                                *)
(***************************************************************************)
\* normalize(s): s is a str or None.
normalize(v) ==
    CollapseSpace(unidecode(lower(strip(IF Truthy(v) THEN v.s ELSE <<>>))))

\* fingerprint(name, ingredients, instructions)
fingerprint(name, ingredients, instructions) ==
    Sha256Hex(Join(<<normalize(name),
                     Join([i \in 1..Len(ingredients) |-> normalize(ingredients[i])], <<NL>>),
                     Join([i \in 1..Len(instructions) |-> normalize(instructions[i])], <<NL>>)>>,
                   <<NL>>))

(***************************************************************************)
(* CookpadVnSpider._coerce_image                                           *)
(***************************************************************************)
\* The loop over a list image: the first element that is a str with a
\* non-blank strip(), or a dict with a truthy url.
RECURSIVE CoerceImageList(_)
CoerceImageList(xs) ==
    IF xs = <<>> THEN None
    ELSE LET x == Head(xs)
         IN  IF IsStr(x) /\ strip(x.s) # <<>> THEN Str(strip(x.s))
             ELSE IF IsDict(x) /\ Truthy(Get(x, "url"))
                  THEN Str(strip(PyStr(Get(x, "url"))))
                  ELSE CoerceImageList(Tail(xs))

_coerce_image(image) ==
    IF ~Truthy(image) THEN None
    ELSE IF IsStr(image) THEN Str(strip(image.s))
    ELSE IF IsList(image) THEN CoerceImageList(image.xs)
    ELSE IF IsDict(image) /\ Truthy(Get(image, "url"))
         THEN Str(strip(PyStr(Get(image, "url"))))
    ELSE None

(***************************************************************************)
(* The response handed to parse_recipe, as what its selectors return.      *)
(* response.url is a str; title, h1, testid_title, og_image, img_src,      *)
(* servings_vi, servings_en and meta_description are the .get() of their   *)
(* selector (a str or None); ld_json, testid_ingredients and               *)
(* testid_instructions are the .getall() of theirs; xpath holds the        *)
(* .getall() of the heading queries, as (kind, prefix, texts) triples.     *)
(***************************************************************************)
\* A str the model never looks inside, kept as one token.
Text(m) == Str(<<m>>)

\* response.xpath(xp).getall() for the heading query of this kind and prefix.
XPathGetAll(resp, kind, prefix) ==
    LET hits == {i \in 1..Len(resp.xpath) :
                    resp.xpath[i][1] = kind /\ resp.xpath[i][2] = prefix}
    IN  IF hits = {} THEN <<>>
        ELSE resp.xpath[CHOOSE i \in hits : \A j \in hits : i <= j][3]

\* json.loads(raw) of a script block: a blank block is skipped before it is
\* decoded, a malformed one raises, any other decodes to its data.
json_loads(block) ==
    IF block.raw = "json" THEN block.data
    ELSE Exc("JSONDecodeError", "Expecting value")

(***************************************************************************)
(* CookpadVnSpider: JSON-LD extraction.                                    *)
(***************************************************************************)
RecipeType == Text("Recipe")

_is_recipe_type(ty) ==
    \/ ty = RecipeType
    \/ IsList(ty) /\ \E i \in 1..Len(ty.xs) : ty.xs[i] = RecipeType

\* The first dict of nodes whose @type is a Recipe type, None without one.
FirstRecipeNode(nodes) ==
    LET hits == {i \in 1..Len(nodes) :
                    IsDict(nodes[i]) /\ _is_recipe_type(Get(nodes[i], "@type"))}
    IN  IF hits = {} THEN None
        ELSE nodes[CHOOSE i \in hits : \A j \in hits : i <= j]

\* The loop over a list document: a Recipe node, or the Recipe of the
\* node's own @graph, whichever node comes first.
RECURSIVE FindRecipeInList(_)
FindRecipeInList(nodes) ==
    IF nodes = <<>> THEN None
    ELSE LET node == Head(nodes)
         IN  IF IsDict(node) /\ _is_recipe_type(Get(node, "@type")) THEN node
             ELSE IF IsDict(node) /\ IsList(Get(node, "@graph"))
                     /\ FirstRecipeNode(Get(node, "@graph").xs) # None
                  THEN FirstRecipeNode(Get(node, "@graph").xs)
                  ELSE FindRecipeInList(Tail(nodes))

_find_recipe_in_jsonld(data) ==
    IF IsDict(data)
    THEN IF _is_recipe_type(Get(data, "@type")) THEN data
         ELSE IF IsList(Get(data, "@graph"))
              THEN FirstRecipeNode(Get(data, "@graph").xs)
              ELSE None
    ELSE IF IsList(data) THEN FindRecipeInList(data.xs)
    ELSE None

\* The loop over the script blocks: the first block that decodes and holds
\* a Recipe.
RECURSIVE FirstRecipeInBlocks(_)
FirstRecipeInBlocks(blocks) ==
    IF blocks = <<>> THEN None
    ELSE LET raw == Head(blocks)
             data == json_loads(raw)
         IN  IF raw.raw = "blank" \/ Raised(data)
             THEN FirstRecipeInBlocks(Tail(blocks))
             ELSE IF Truthy(_find_recipe_in_jsonld(data))
                  THEN _find_recipe_in_jsonld(data)
                  ELSE FirstRecipeInBlocks(Tail(blocks))

_extract_recipe_jsonld(resp) == FirstRecipeInBlocks(resp.ld_json)

\* The loop over recipeInstructions: the text (else the name) of a dict
\* step, a str step itself, each stripped; any other step is skipped.
RECURSIVE InstructionSteps(_)
InstructionSteps(ins) ==
    IF ins = <<>> THEN <<>>
    ELSE LET step == Head(ins)
             text == Or(Get(step, "text"), Get(step, "name"))
         IN  (IF IsDict(step)
              THEN (IF Truthy(text) THEN <<Str(strip(PyStr(text)))>> ELSE <<>>)
              ELSE IF IsStr(step) THEN <<Str(strip(step.s))>> ELSE <<>>)
             \o InstructionSteps(Tail(ins))

\* str(v).strip() if v else None
StrOrNone(v) == IF Truthy(v) THEN Str(strip(PyStr(v))) ELSE None

\* What "for x in lines" of _clean_lines iterates over: the elements of a
\* list, the keys of a dict; any other value is not iterable.
IterItems(v) ==
    IF IsList(v) THEN v.xs
    ELSE [i \in 1..Len(v.items) |-> Text(v.items[i][1])]

ExtractResult(name, image_url, ingredients_raw, instructions_raw, servings_raw, cuisine, description, author_name, extract_source) ==
    [t |-> "ExtractResult", name |-> name, image_url |-> image_url,
     ingredients_raw |-> ingredients_raw, instructions_raw |-> instructions_raw,
     servings_raw |-> servings_raw, cuisine |-> cuisine,
     description |-> description, author_name |-> author_name,
     extract_source |-> extract_source, extract_error |-> None]

_parse_from_jsonld(recipe) ==
    LET ingredients0 == Or(Get(recipe, "recipeIngredient"), List(<<>>))
        ingredients == IF IsStr(ingredients0) THEN List(<<ingredients0>>)
                       ELSE ingredients0
        ins0 == Or(Get(recipe, "recipeInstructions"), List(<<>>))
        ins == IF IsStr(ins0) THEN List(<<ins0>>) ELSE ins0
        instructions == IF IsList(ins) THEN InstructionSteps(ins.xs) ELSE <<>>
        author == Get(recipe, "author")
        author_name ==
            IF IsDict(author) THEN Get(author, "name")
            ELSE IF IsList(author) /\ Truthy(author) /\ IsDict(author.xs[1])
                 THEN Get(author.xs[1], "name")
                 ELSE None
    IN  IF ~(IsList(ingredients) \/ IsDict(ingredients))
        THEN Exc("TypeError", "'" \o ingredients.t \o "' object is not iterable")
        ELSE ExtractResult(Get(recipe, "name"),
                           _coerce_image(Get(recipe, "image")),
                           _clean_lines(IterItems(ingredients)),
                           _clean_lines(instructions),
                           StrOrNone(Get(recipe, "recipeYield")),
                           StrOrNone(Get(recipe, "recipeCuisine")),
                           StrOrNone(Get(recipe, "description")),
                           StrOrNone(author_name),
                           Text("jsonld"))

(***************************************************************************)
(* CookpadVnSpider: DOM fallback extraction.                               *)
(***************************************************************************)
Cookpad == <<"C", "o", "o", "k", "p", "a", "d">>

\* Whether \s*\|\s*Cookpad.*$ matches s from its first character on: "."
\* matches no newline, and "$" allows one newline at the very end.
SuffixMatches(s) ==
    LET a == DropWhileSpace(s)
    IN  /\ a # <<>> /\ Head(a) = "|"
        /\ LET b == DropWhileSpace(Tail(a))
           IN  /\ Len(b) >= Len(Cookpad)
               /\ SubSeq(b, 1, Len(Cookpad)) = Cookpad
               /\ \A i \in (Len(Cookpad) + 1)..(Len(b) - 1) : b[i] # NL

\* re.sub(r"\s*\|\s*Cookpad.*$", "", t): the leftmost match is removed (a
\* newline that ends t stays).
StripSiteName(s) ==
    LET starts == {p \in 1..Len(s) : SuffixMatches(SubSeq(s, p, Len(s)))}
    IN  IF starts = {} THEN s
        ELSE SubSeq(s, 1, (CHOOSE p \in starts : \A q \in starts : p <= q) - 1)
             \o (IF s[Len(s)] = NL THEN <<NL>> ELSE <<>>)

_fallback_title(resp) ==
    IF ~Truthy(resp.title) THEN None
    ELSE Or(Str(strip(StripSiteName(resp.title.s))), None)

MaxItems == 50

\* items[:max_items]
Take(items, n) == SubSeq(items, 1, IF Len(items) < n THEN Len(items) ELSE n)

RECURSIVE _extract_section_list_by_heading(_, _, _)
_extract_section_list_by_heading(resp, heading_prefixes, max_items) ==
    IF heading_prefixes = <<>> THEN <<>>
    ELSE LET prefix == Head(heading_prefixes)
             items == _clean_lines(XPathGetAll(resp, "following", prefix))
             items2 == _clean_lines(XPathGetAll(resp, "following-sibling", prefix))
         IN  IF items # <<>> THEN Take(items, max_items)
             ELSE IF items2 # <<>> THEN Take(items2, max_items)
             ELSE _extract_section_list_by_heading(resp, Tail(heading_prefixes),
                                                   max_items)

IngredientHeadings == <<"Nguyen Lieu", "Nguyen lieu", "Ingredients">>

InstructionHeadings == <<"Huong dan cach lam", "Cach lam", "Directions", "Instructions">>

\* v.strip() if v else None
StripOrNone(v) == IF Truthy(v) THEN Str(strip(v.s)) ELSE None

_parse_from_dom(resp) ==
    LET name == Or(Or(resp.h1, resp.testid_title), _fallback_title(resp))
        image_url == Or(resp.og_image, resp.img_src)
        ingredients ==
            IF resp.testid_ingredients # <<>> THEN resp.testid_ingredients
            ELSE _extract_section_list_by_heading(resp, IngredientHeadings, MaxItems)
        instructions ==
            IF resp.testid_instructions # <<>> THEN resp.testid_instructions
            ELSE _extract_section_list_by_heading(resp, InstructionHeadings, MaxItems)
        servings_raw == Or(resp.servings_vi, resp.servings_en)
    IN  ExtractResult(StripOrNone(name),
                      StripOrNone(image_url),
                      _clean_lines(ingredients),
                      _clean_lines(instructions),
                      StripOrNone(servings_raw),
                      None,
                      resp.meta_description,
                      None,
                      Text("dom"))

(***************************************************************************)
(* CookpadVnSpider.parse_recipe                                            *)
(***************************************************************************)
\* out.get(k, default)
DictGet(d, k, default) == IF k \in DOMAIN d THEN d[k] ELSE default

\* The structured result: _parse_from_jsonld of the Recipe found, else None.
StructuredResult(resp) ==
    Bind(_extract_recipe_jsonld(resp),
         LAMBDA jsonld : IF Truthy(jsonld) THEN _parse_from_jsonld(jsonld) ELSE None)

\* The fallback condition mistaken for "either list is empty".
NeedsDomFallback_either(res) ==
    ~Truthy(res) \/ res.ingredients_raw = <<>> \/ res.instructions_raw = <<>>

\* not res or (not res.ingredients_raw and not res.instructions_raw)
NeedsDomFallback(res) ==
    ~Truthy(res) \/ (res.ingredients_raw = <<>> /\ res.instructions_raw = <<>>)

\* res after the DOM fallback step (an exception of the JSON-LD step is
\* passed on).
AcceptedResult(resp) ==
    Bind(StructuredResult(resp),
         LAMBDA res : IF Raised(res) THEN res
                      ELSE IF NeedsDomFallback(res) THEN _parse_from_dom(resp)
                      ELSE res)

\* The name taken from the page title alone.
ResolvedName_title_only(res, resp) == _fallback_title(resp)

\* res.name or self._fallback_title(response)
ResolvedName(res, resp) == Or(res.name, _fallback_title(resp))

\* The final validation with the ingredients checked before the name.
Validate_ingredients_first(name, ingredients, instructions) ==
    IF ingredients = <<>> THEN Exc("ValueError", "Missing ingredients")
    ELSE IF ~Truthy(name) THEN Exc("ValueError", "Missing recipe name")
    ELSE IF instructions = <<>> THEN Exc("ValueError", "Missing instructions")
    ELSE None

\* The final validation: the ValueError raised, None when all three are there.
Validate(name, ingredients, instructions) ==
    IF ~Truthy(name) THEN Exc("ValueError", "Missing recipe name")
    ELSE IF ingredients = <<>> THEN Exc("ValueError", "Missing ingredients")
    ELSE IF instructions = <<>> THEN Exc("ValueError", "Missing instructions")
    ELSE None

\* The try block: the dict of out.update on the 'ok' path, or the exception
\* that left the block.
TryBlock(resp) ==
    Bind(AcceptedResult(resp), LAMBDA res :
        IF Raised(res) THEN res
        ELSE
        LET ingredients == _clean_lines(res.ingredients_raw)
            instructions == _clean_lines(res.instructions_raw)
            name == ResolvedName(res, resp)
            invalid == Validate(name, ingredients, instructions)
            fp == _fingerprint(name, ingredients, instructions)
        IN  IF Raised(invalid) THEN invalid
            ELSE IF Raised(fp) THEN fp
            ELSE [name |-> name,
                  image_url |-> res.image_url,
                  servings_raw |-> res.servings_raw,
                  cuisine |-> res.cuisine,
                  description |-> res.description,
                  author_name |-> res.author_name,
                  ingredients_raw |-> ingredients,
                  instructions_raw |-> instructions,
                  content_fingerprint |-> fp,
                  extract_status |-> Text("ok"),
                  extract_error |-> None,
                  extract_source |-> res.extract_source])

\* An except clause that names ValueError alone.
Catches_ValueError_only(e) == e.type = "ValueError"

\* except Exception: every exception the try block raises is an Exception.
Catches(e) == Raised(e)

\* The except block: the dict of out.update on the 'fail' path, or the
\* exception its own _fingerprint call raised.
ExceptBlock(out, e) ==
    LET fp == _fingerprint(Or(DictGet(out, "name", Str(<<>>)), Str(<<>>)), <<>>, <<>>)
    IN  IF Raised(fp) THEN fp
        ELSE [name |-> DictGet(out, "name", None),
              image_url |-> DictGet(out, "image_url", None),
              ingredients_raw |-> DictGet(out, "ingredients_raw", <<>>),
              instructions_raw |-> DictGet(out, "instructions_raw", <<>>),
              content_fingerprint |-> fp,
              extract_status |-> Text("fail"),
              extract_error |-> Text(e.msg),
              extract_source |-> DictGet(out, "extract_source", None)]

\* The generator: the records it yields, and the exception that left it
\* (None when it returned).
parse_recipe(resp) ==
    LET out == [source_url |-> resp.url,
                extract_status |-> Text("fail"),
                extract_error |-> None,
                extract_source |-> None]
    IN  Bind(TryBlock(resp), LAMBDA done :
            IF ~Raised(done) THEN [yielded |-> <<done @@ out>>, raised |-> None]
            ELSE IF ~Catches(done) THEN [yielded |-> <<>>, raised |-> done]
            ELSE LET failed == ExceptBlock(out, done)
                 IN  IF Raised(failed) THEN [yielded |-> <<>>, raised |-> failed]
                     ELSE [yielded |-> <<failed @@ out>>, raised |-> None])

(***************************************************************************)
(* SupabaseStagingUpsertPipeline.process_item                              *)
(***************************************************************************)
\* The payload of process_item; item["source_url"] and
\* item["content_fingerprint"] raise KeyError when the key is missing.
Payload(it) ==
    IF "source_url" \notin DOMAIN it THEN Exc("KeyError", "'source_url'")
    ELSE IF "content_fingerprint" \notin DOMAIN it
         THEN Exc("KeyError", "'content_fingerprint'")
    ELSE [t |-> "row",
          source_url |-> it["source_url"],
          name |-> DictGet(it, "name", None),
          image_url |-> DictGet(it, "image_url", None),
          ingredients_raw |-> DictGet(it, "ingredients_raw", <<>>),
          instructions_raw |-> DictGet(it, "instructions_raw", <<>>),
          content_fingerprint |-> it["content_fingerprint"],
          extract_status |-> DictGet(it, "extract_status", Text("ok")),
          extract_error |-> DictGet(it, "extract_error", None)]

\* An insert that leaves a row already there as it is.
Upsert_keep_existing(table, payload) ==
    IF table[payload.source_url] # None THEN table
    ELSE [table EXCEPT ![payload.source_url] = payload]

\* upsert(payload, on_conflict="source_url"): the row of that source_url is
\* inserted, or replaced by the payload.
Upsert(table, payload) == [table EXCEPT ![payload.source_url] = payload]

(***************************************************************************)
(* The responses of the model.  A page is a URL, a <title>, the JSON-LD    *)
(* script blocks and the markup the DOM selectors see.                     *)
(***************************************************************************)
URLs == {Text("https://cookpad.com/vn/recipes/1"), Text("https://cookpad.com/vn/recipes/2")}

\* <title>: none; "Pho | Cookpad"; " | Cookpad", nothing but the site name.
Titles ==
    {None,
     Str(<<"P", "h", "o", SP, "|", SP>> \o Cookpad),
     Str(<<SP, "|", SP>> \o Cookpad)}

JsonBlock(data) == [raw |-> "json", data |-> data]

BlankBlock == [raw |-> "blank"]

MalformedBlock == [raw |-> "malformed"]

Recipe(fields) == Dict(<< <<"@type", RecipeType>> >> \o fields)

PhoName == Str(<<"P", "h", "o^">>)

SomeIngredients == List(<<Str(<<SP, "a">>), Str(<<"a">>), None, Str(<<"b">>)>>)

SomeInstructions ==
    List(<<Dict(<< <<"text", Str(<<"x", SP>>)>> >>), Str(<<"y">>), Num(3)>>)

\* The script blocks: none; a full Recipe after a blank and a malformed
\* block; a Recipe in an @graph whose name is a number; a Recipe in a list
\* whose recipeIngredient is a number; a Recipe with no ingredients; one with
\* no instructions; one with neither; one with no name; no Recipe at all.
LdJsons ==
    {<<>>,
     <<BlankBlock, MalformedBlock,
       JsonBlock(Recipe(<< <<"name", PhoName>>,
                           <<"image", List(<<Dict(<< <<"url", Text("http://x/1.jpg")>> >>),
                                             Text("http://x/2.jpg")>>)>>,
                           <<"recipeIngredient", SomeIngredients>>,
                           <<"recipeInstructions", SomeInstructions>>,
                           <<"recipeYield", Num(2)>>,
                           <<"author", Dict(<< <<"name", Text("An")>> >>)>> >>))>>,
     <<JsonBlock(Dict(<< <<"@graph",
          List(<<Dict(<< <<"@type", Text("WebSite")>> >>),
                 Recipe(<< <<"name", Num(7)>>,
                           <<"recipeIngredient", SomeIngredients>>,
                           <<"recipeInstructions", SomeInstructions>> >>)>>)>> >>))>>,
     <<JsonBlock(List(<<Recipe(<< <<"name", PhoName>>,
                                  <<"recipeIngredient", Num(2)>>,
                                  <<"recipeInstructions", SomeInstructions>> >>)>>))>>,
     <<JsonBlock(Recipe(<< <<"name", PhoName>>,
                           <<"recipeIngredient", List(<<>>)>>,
                           <<"recipeInstructions", SomeInstructions>> >>))>>,
     <<JsonBlock(Recipe(<< <<"name", PhoName>>,
                           <<"recipeIngredient", Str(<<"a">>)>>,
                           <<"recipeInstructions", List(<<Num(3)>>)>> >>))>>,
     <<JsonBlock(Recipe(<< <<"name", PhoName>> >>))>>,
     <<JsonBlock(Recipe(<< <<"recipeIngredient", SomeIngredients>>,
                           <<"recipeInstructions", Str(<<"x">>)>> >>))>>,
     <<JsonBlock(Dict(<< <<"@type", List(<<Text("WebPage")>>)>> >>))>>}

Markup(h1, testid_ingredients, testid_instructions, xpath) ==
    [h1 |-> h1, testid_title |-> None, og_image |-> None, img_src |-> None,
     testid_ingredients |-> testid_ingredients,
     testid_instructions |-> testid_instructions,
     xpath |-> xpath,
     servings_vi |-> None, servings_en |-> None, meta_description |-> None]

\* The markup: nothing the selectors match; a heading and both data-testid
\* lists; no heading, the lists found by their section headings; a heading
\* and the ingredients alone.
Markups ==
    {Markup(None, <<>>, <<>>, <<>>),
     Markup(Str(<<SP, "B", "u", "n">>),
            <<Str(<<"c">>), Str(<<"c">>), Str(<<"d">>)>>,
            <<Str(<<"z", NBSP>>)>>,
            <<>>),
     Markup(None, <<>>, <<>>,
            << <<"following", "Nguyen lieu", <<Str(<<"c">>)>> >>,
               <<"following-sibling", "Cach lam", <<Str(<<"z">>), Str(<<SP>>)>> >> >>),
     Markup(Str(<<"B", "u", "n">>), <<Str(<<"c">>)>>, <<>>, <<>>)}

Page(url, title, ld_json, markup) ==
    [url |-> url, title |-> title, ld_json |-> ld_json] @@ markup

\* Every page of the model.
Pages ==
    {Page(u, ti, ld, m) : u \in URLs, ti \in Titles, ld \in LdJsons, m \in Markups}

\* The pages of a crawl with several requests in flight.
CrawlPages ==
    {p \in Pages : p.title # Str(<<SP, "|", SP>> \o Cookpad) /\ p.ld_json = <<>>}

(***************************************************************************)
(* The crawl: Scrapy hands each downloaded response to the spider, and     *)
(* each record the spider yields to the pipeline, in any order.            *)
(***************************************************************************)
NumAttempts == 2

Attempts == 1..NumAttempts

InitCrawl ==
    /\ pc = [a \in Attempts |-> "idle"]
    /\ response = [a \in Attempts |-> None]
    /\ item = [a \in Attempts |-> <<>>]
    /\ store = [u \in URLs |-> None]
    /\ arrivals = <<>>

\* The engine calls the spider's callback with a downloaded response.
Download(a, pages) ==
    /\ pc[a] = "idle"
    /\ \E p \in pages : response' = [response EXCEPT ![a] = p]
    /\ pc' = [pc EXCEPT ![a] = "downloaded"]
    /\ UNCHANGED <<item, store, arrivals, call, result>>

\* parse runs parse_recipe to its end: the records it yields go to the
\* pipeline, an exception that leaves it is a spider error.
ParseRecipe(a) ==
    /\ pc[a] = "downloaded"
    /\ \E r \in {parse_recipe(response[a])} :
           /\ item' = [item EXCEPT ![a] = r.yielded]
           /\ pc' = [pc EXCEPT ![a] =
                        IF r.raised # None THEN "spider_error" ELSE "yielded"]
    /\ UNCHANGED <<response, store, arrivals, call, result>>

\* process_item builds the payload and upserts it; a KeyError leaves the
\* store as it is.
ProcessItem(a) ==
    /\ pc[a] = "yielded"
    /\ item[a] # <<>>
    /\ \E payload \in {Payload(Head(item[a]))} :
           IF Raised(payload)
           THEN /\ pc' = [pc EXCEPT ![a] = "pipeline_error"]
                /\ UNCHANGED <<store, arrivals>>
           ELSE /\ store' = Upsert(store, payload)
                /\ arrivals' = Append(arrivals, a)
                /\ pc' = [pc EXCEPT ![a] = "stored"]
    /\ UNCHANGED <<response, item, call, result>>

NextCrawl(attempts, pages) ==
    \E a \in attempts :
        \/ Download(a, pages)
        \/ ParseRecipe(a)
        \/ ProcessItem(a)

(***************************************************************************)
(* The helpers called on their own.                                        *)
(***************************************************************************)
Returned(v) == [t |-> "returned", value |-> v]

MaxLines == 3

MaxImages == 2

\* The entries of a line list: None, "", "a", "b", " a\xa0", "a\t b",
\* "a\n\nb", 7.
LineEntries ==
    {None, Str(<<>>), Str(<<"a">>), Str(<<"b">>), Str(<<SP, "a", NBSP>>),
     Str(<<"a", TAB, SP, "b">>), Str(<<"a", NL, NL, "b">>), Num(7)}

SeqsUpTo(S, n) == UNION {[1..k -> S] : k \in 0..n}

ExampleLines ==
    <<Str(<<"a">>), Str(<<"a">>), Str(<<>>), Str(<<"b">>), Str(<<"b">>), Str(<<"a">>)>>

LineLists == SeqsUpTo(LineEntries, MaxLines) \cup {ExampleLines}

ImageElements ==
    {Str(<<>>), Str(<<SP, SP>>), Text("http://x/2.jpg"), Num(5),
     Dict(<< <<"url", Text("http://x/1.jpg")>> >>),
     Dict(<< <<"url", Str(<<>>)>> >>),
     Dict(<< <<"src", Text("http://x/3.jpg")>> >>)}

ImageValues ==
    {None, Num(0), Num(5), Str(<<>>), Str(<<SP, SP>>), Text("http://x/2.jpg"),
     Str(<<SP, "http://x/2.jpg", NL>>),
     Dict(<<>>),
     Dict(<< <<"url", Text("http://x/1.jpg")>> >>),
     Dict(<< <<"url", Str(<<SP>>)>> >>),
     Dict(<< <<"url", Num(5)>> >>),
     Dict(<< <<"src", Text("http://x/3.jpg")>> >>)}
    \cup {List(xs) : xs \in SeqsUpTo(ImageElements, MaxImages)}

\* Names and cleaned line lists as parse_recipe passes them to _fingerprint.
FingerprintNames ==
    {Str(<<"P", "h", "o^">>), Str(<<"p", "h", "o">>), Str(<<"p", "h", "o^">>),
     Str(<<"P", "h", "O">>), Str(<<"p", "h", "o", SP>>),
     Str(<<"p", "h", SP, SP, "o">>), Str(<<"p", "h", SP, "o">>)}

FingerprintLines ==
    {<<>>, <<Str(<<"a">>)>>, <<Str(<<"A">>)>>, <<Str(<<"a">>), Str(<<"b">>)>>,
     <<Str(<<"a", NL, "b">>)>>}

Calls ==
    {[fn |-> "_clean_lines", args |-> <<l>>] : l \in LineLists}
    \cup {[fn |-> "_coerce_image", args |-> <<v>>] : v \in ImageValues}
    \cup {[fn |-> "_fingerprint", args |-> <<n, i, s>>] :
            n \in FingerprintNames, i \in FingerprintLines, s \in FingerprintLines}

CleanLinesCall ==
    /\ call.fn = "_clean_lines" /\ result = None
    /\ result' = Returned(_clean_lines(call.args[1]))
    /\ UNCHANGED <<call, pc, response, item, store, arrivals>>

CoerceImageCall ==
    /\ call.fn = "_coerce_image" /\ result = None
    /\ result' = Returned(_coerce_image(call.args[1]))
    /\ UNCHANGED <<call, pc, response, item, store, arrivals>>

FingerprintCall ==
    /\ call.fn = "_fingerprint" /\ result = None
    /\ result' = Returned(_fingerprint(call.args[1], call.args[2], call.args[3]))
    /\ UNCHANGED <<call, pc, response, item, store, arrivals>>

NoCall == [fn |-> "none", args |-> <<>>]

(***************************************************************************)
(* Specifications.                                                         *)
(***************************************************************************)
\* One request, over every page.
Init == InitCrawl /\ call = NoCall /\ result = None

Next == NextCrawl({1}, Pages)

Spec == Init /\ [][Next]_vars

\* NumAttempts requests in flight.
SpecCrawl == Init /\ [][NextCrawl(Attempts, CrawlPages)]_vars

\* A helper called on one input.
InitFn == InitCrawl /\ call \in Calls /\ result = None

NextFn == CleanLinesCall \/ CoerceImageCall \/ FingerprintCall

SpecFn == InitFn /\ [][NextFn]_vars

(***************************************************************************)
(* Properties.                                                             *)
(***************************************************************************)
\* parse_recipe has yielded for attempt a.
Yielded(a) == pc[a] \in {"yielded", "stored"}

Ok == Text("ok")

Fail == Text("fail")

\* The cleaned lists and the resolved name parse_recipe validates, for a
\* response whose extractors did not raise.
CleanedIngredients(resp) == _clean_lines(AcceptedResult(resp).ingredients_raw)

CleanedInstructions(resp) == _clean_lines(AcceptedResult(resp).instructions_raw)

NameOf(resp) == ResolvedName(AcceptedResult(resp), resp)

\* C1: every response handed to parse_recipe gives exactly one record and no
\* exception leaves parse_recipe; the record carries its source_url and a
\* content_fingerprint hex digest on the 'ok' and on the 'fail' path alike,
\* so process_item reads both keys without a KeyError and writes the row.
C1_OneRecordWithFingerprint ==
    \A a \in Attempts :
        /\ pc[a] \notin {"spider_error", "pipeline_error"}
        /\ Yielded(a) =>
            /\ Len(item[a]) = 1
            /\ {"source_url", "content_fingerprint"} \subseteq DOMAIN item[a][1]
            /\ item[a][1].source_url = response[a].url
            /\ item[a][1].content_fingerprint.t = "sha256hex"
            /\ item[a][1].extract_status \in {Ok, Fail}
        /\ pc[a] = "stored" =>
            /\ store[response[a].url] # None
            /\ store[response[a].url].content_fingerprint
                   = item[a][1].content_fingerprint

\* C1's case: a response whose JSON-LD extractor raised a TypeError, its
\* 'fail' record stored.
C1_Witness ==
    \E a \in Attempts :
        /\ pc[a] = "stored"
        /\ Raised(StructuredResult(response[a]))
        /\ item[a][1].extract_error = Text("'int' object is not iterable")

\* C2: extract_status is 'ok' if and only if the resolved name, the cleaned
\* ingredients and the cleaned instructions are all non-empty, also when the
\* structured-data name is non-empty but not a string.
C2_OkIffAllPresent ==
    \A a \in Attempts :
        (Yielded(a) /\ ~Raised(AcceptedResult(response[a]))) =>
            (item[a][1].extract_status = Ok
                <=> /\ Truthy(NameOf(response[a]))
                    /\ CleanedIngredients(response[a]) # <<>>
                    /\ CleanedInstructions(response[a]) # <<>>)

\* C3: extract_error is None if and only if extract_status is 'ok'; on a
\* record that is not 'ok' it is the message of the exception caught, and
\* after a failed validation it names the first missing field in the order
\* name, ingredients, instructions.
C3_ErrorNullIffOk ==
    \A a \in Attempts :
        Yielded(a) =>
            LET it == item[a][1]
                res == AcceptedResult(response[a])
            IN  /\ it.extract_error = None <=> it.extract_status = Ok
                /\ it.extract_status # Ok => IsStr(it.extract_error)
                /\ Raised(res) => it.extract_error = Text(res.msg)
                /\ ~Raised(res) =>
                    LET name == NameOf(response[a])
                        ingredients == CleanedIngredients(response[a])
                        instructions == CleanedInstructions(response[a])
                    IN  /\ ~Truthy(name) =>
                            it.extract_error = Text("Missing recipe name")
                        /\ (Truthy(name) /\ ingredients = <<>>) =>
                            it.extract_error = Text("Missing ingredients")
                        /\ (Truthy(name) /\ ingredients # <<>> /\ instructions = <<>>) =>
                            it.extract_error = Text("Missing instructions")
                        /\ (IsStr(name) /\ Truthy(name) /\ ingredients # <<>>
                                /\ instructions # <<>>) =>
                            it.extract_error = None

\* C3's case: a record for a page with neither a name nor ingredients, whose
\* cause names the name.
C3_Witness ==
    \E a \in Attempts :
        /\ Yielded(a)
        /\ ~Raised(AcceptedResult(response[a]))
        /\ ~Truthy(NameOf(response[a]))
        /\ CleanedIngredients(response[a]) = <<>>
        /\ item[a][1].extract_error = Text("Missing recipe name")

\* The DOM result is a complete one: a name and both lists.
DomComplete(resp) ==
    /\ Truthy(_parse_from_dom(resp).name)
    /\ _parse_from_dom(resp).ingredients_raw # <<>>
    /\ _parse_from_dom(resp).instructions_raw # <<>>

\* C4 as claimed: when the structured Recipe yields an empty list for either
\* ingredients or instructions and the DOM fallback is complete, the record
\* has extract_source = 'dom'.
C4_FallbackWhenEitherEmpty ==
    \A a \in Attempts :
        Yielded(a) =>
            LET sr == StructuredResult(response[a])
            IN  (/\ ~Raised(sr) /\ sr # None
                 /\ (sr.ingredients_raw = <<>> \/ sr.instructions_raw = <<>>)
                 /\ DomComplete(response[a]))
                => item[a][1].extract_source = Text("dom")

\* C4 amended: when no structured Recipe is found, or the one found yields
\* empty lists for both ingredients and instructions, and the DOM fallback is
\* complete, the record is 'ok', holds the DOM lists and has extract_source =
\* 'dom'; when exactly one of the two structured lists is empty the
\* structured result is kept, and the record is 'fail' with no
\* extract_source.
C4_FallbackWhenBothEmpty ==
    \A a \in Attempts :
        Yielded(a) =>
            LET sr == StructuredResult(response[a])
                it == item[a][1]
            IN  ~Raised(sr) =>
                /\ (/\ sr = None
                       \/ (sr.ingredients_raw = <<>> /\ sr.instructions_raw = <<>>)
                    /\ DomComplete(response[a]))
                   => /\ it.extract_status = Ok
                      /\ it.extract_source = Text("dom")
                      /\ it.ingredients_raw = _parse_from_dom(response[a]).ingredients_raw
                      /\ it.instructions_raw = _parse_from_dom(response[a]).instructions_raw
                /\ (/\ sr # None
                    /\ (sr.ingredients_raw = <<>>) # (sr.instructions_raw = <<>>))
                   => /\ it.extract_status = Fail
                      /\ it.extract_source = None

\* C4's case: a Recipe node with neither list on a page whose markup is
\* complete, the record taken from the DOM.
C4_Witness ==
    \E a \in Attempts :
        /\ Yielded(a)
        /\ ~Raised(StructuredResult(response[a]))
        /\ StructuredResult(response[a]) # None
        /\ StructuredResult(response[a]).ingredients_raw = <<>>
        /\ StructuredResult(response[a]).instructions_raw = <<>>
        /\ DomComplete(response[a])
        /\ item[a][1].extract_source = Text("dom")

C5_FailedFingerprintsDistinct ==
    \A a, b \in Attempts :
        (/\ Yielded(a) /\ Yielded(b)
         /\ item[a][1].extract_status = Fail
         /\ item[b][1].extract_status = Fail
         /\ \/ item[a][1].source_url # item[b][1].source_url
            \/ item[a][1].extract_error # item[b][1].extract_error
            \/ _fallback_title(response[a]) # _fallback_title(response[b]))
        => item[a][1].content_fingerprint # item[b][1].content_fingerprint

AllStored == \A a \in Attempts : pc[a] = "stored"

\* The store after the records of these attempts arrive in this order.
RECURSIVE StoreAfter(_, _)
StoreAfter(order, table) ==
    IF order = <<>> THEN table
    ELSE StoreAfter(Tail(order), Upsert(table, Payload(item[Head(order)][1])))

\* The store when the records arrive in the order of their requests.
CanonicalStore == StoreAfter([a \in Attempts |-> a], [u \in URLs |-> None])

\* C8 as claimed: the final store is the same for every arrival order, also
\* when two attempts produce records with the same source_url.
C8_FinalStoreOrderIndependent == AllStored => store = CanonicalStore

\* The arrivals whose record has this source_url.
ArrivalsFor(u) == {k \in 1..Len(arrivals) : item[arrivals[k]][1].source_url = u}

\* C8 amended: the row of a source_url is the record that arrived last for
\* it; so the final store is the same for every arrival order when the
\* records that share a source_url are equal, and otherwise depends on which
\* of them arrived last.
C8_LastWriteWins ==
    /\ \A u \in URLs :
        IF ArrivalsFor(u) = {} THEN store[u] = None
        ELSE store[u] = Payload(item[arrivals[
                 CHOOSE k \in ArrivalsFor(u) : \A j \in ArrivalsFor(u) : j <= k]][1])
    /\ (/\ AllStored
        /\ \A a, b \in Attempts :
              item[a][1].source_url = item[b][1].source_url => item[a] = item[b])
       => store = CanonicalStore

\* C8's case: two different records of one source_url, both stored, the
\* later request's record first.
C8_Witness ==
    /\ AllStored
    /\ \E a, b \in Attempts :
        /\ a < b
        /\ item[a][1].source_url = item[b][1].source_url
        /\ item[a] # item[b]
        /\ \E j, k \in 1..Len(arrivals) : j < k /\ arrivals[j] = b /\ arrivals[k] = a

Called(fn) == call.fn = fn /\ result # None

\* C6: the fingerprint of a record equals utils.fingerprint of the same
\* triple, and any two triples that are equal after lower-casing, diacritic
\* folding and whitespace collapsing have the same fingerprint.
C6_FingerprintNormalized ==
    Called("_fingerprint") =>
        /\ result.value = fingerprint(call.args[1], call.args[2], call.args[3])
        /\ \A n \in FingerprintNames, i, s \in FingerprintLines :
              (/\ normalize(n) = normalize(call.args[1])
               /\ [k \in 1..Len(i) |-> normalize(i[k])]
                    = [k \in 1..Len(call.args[2]) |-> normalize(call.args[2][k])]
               /\ [k \in 1..Len(s) |-> normalize(s[k])]
                    = [k \in 1..Len(call.args[3]) |-> normalize(call.args[3][k])])
              => _fingerprint(n, i, s) = result.value

\* The entries of lines that are not None and not empty once normalised.
Kept(lines) ==
    {i \in 1..Len(lines) :
        lines[i] # None /\ _normalize_whitespace(PyStr(lines[i])) # <<>>}

\* C9: _clean_lines returns the normalised non-empty entries in their order
\* with each run of equal neighbours collapsed to one entry (a repeat that is
\* not adjacent stays), never an empty entry or two equal neighbours; the
\* example list gives a, b, a; cleaning the result again changes nothing.
C9_CleanLines ==
    Called("_clean_lines") =>
        LET lines == call.args[1]
            out == result.value
            K == Kept(lines)
        IN  /\ \A k \in 1..Len(out) : IsStr(out[k]) /\ out[k].s # <<>>
            /\ \A k \in 1..(Len(out) - 1) : out[k] # out[k + 1]
            /\ K = {} => out = <<>>
            /\ \E f \in [K -> 1..Len(out)] :
                /\ \A i \in K : out[f[i]] = Str(_normalize_whitespace(PyStr(lines[i])))
                /\ \A i, j \in K : i < j => f[i] <= f[j]
                /\ \A i, j \in K :
                      (i < j /\ \A m \in K : ~(i < m /\ m < j)) => f[j] <= f[i] + 1
                /\ \A i \in K : (\A m \in K : i <= m) => f[i] = 1
                /\ \A i \in K : (\A m \in K : m <= i) => f[i] = Len(out)
            /\ lines = ExampleLines => out = <<Str(<<"a">>), Str(<<"b">>), Str(<<"a">>)>>
            /\ _clean_lines(out) = out

\* C9's case: the example list, cleaned.
C9_Witness ==
    /\ Called("_clean_lines")
    /\ call.args[1] = ExampleLines
    /\ result.value = <<Str(<<"a">>), Str(<<"b">>), Str(<<"a">>)>>

\* An element of a list image that the claim lets stand for the image.
Qualifies(x) ==
    \/ IsStr(x) /\ x.s # <<>>
    \/ IsDict(x) /\ \E i \in 1..Len(x.items) : x.items[i][1] = "url"

\* C10: a (non-empty) string gives itself; a list gives its first element
\* that is a non-empty string or an object with a url field, the string
\* itself or the url, and None when no element qualifies; an object with a
\* url gives the url; anything else gives None; the result is never "".
C10_CoerceImage ==
    Called("_coerce_image") =>
        LET image == call.args[1]
            got == result.value
            firsts == IF IsList(image)
                      THEN {i \in 1..Len(image.xs) :
                              /\ Qualifies(image.xs[i])
                              /\ \A j \in 1..(i - 1) : ~Qualifies(image.xs[j])}
                      ELSE {}
        IN  /\ got # Str(<<>>)
            /\ IF IsStr(image) /\ image.s # <<>> THEN got = image
               ELSE IF IsList(image)
               THEN /\ firsts = {} => got = None
                    /\ \A i \in firsts :
                          got = IF IsStr(image.xs[i]) THEN image.xs[i]
                                ELSE Get(image.xs[i], "url")
               ELSE IF Qualifies(image) THEN got = Get(image, "url")
               ELSE got = None

====
